---- MODULE Spec2Model ----
(***************************************************************************)
(* Four programs of the repository, each with its own specifications:      *)
(*  - the round-robin printer of src/Multithreading/ThreadSynchronization  *)
(*    .cpp: class MyPrinter (the turn scheduler), its startup barrier and  *)
(*    main (Spec, AnySpec, LiveSpec, and ReadSpec for print_chars on its   *)
(*    own).  Worker threads are named by their spawn number 1..N, the      *)
(*    model's stand-in for std::thread::id;                                *)
(*  - the binary-semaphore producer/consumer of src/Multithreading/        *)
(*    pucerconsumer.cpp (SemSpec);                                         *)
(*  - the condition-variable producer/consumer of src/unnamed/part_011     *)
(*    (BufSpec, BufLiveSpec);                                              *)
(*  - the two threads locking two mutexes in opposite orders of            *)
(*    src/unnamed/part_009 (LockSpec).                                     *)
(* A specification runs one program and leaves the others' variables as    *)
(* they are initialised.                                                   *)
(***************************************************************************)
EXTENDS Integers, Sequences, FiniteSets, TLC

\* ------------------------------------------------------------------ bounds
\* Threads, string length and chunk size of the configurations explored, the
\* turns recorded in emitted, and the largest cursor value followed.
MaxThreads == 2
MaxLen == 3
MaxChunk == 3
MaxTurns == 3
MaxCursor == 6
\* The longest command line tried (argc counts the program name).
MaxArgc == 5
\* The headings of the semaphore program recorded in passes.
MaxPasses == 5
\* The bounded buffer of src/unnamed/part_011 is run at a capacity of 2 (50
\* in the source, line 113) with a producer given 4 items (100, line 196).
maxBufferSize == 2
MaxVal == 4

\* --------------------------------------------------------------- constants
Alphabet == <<"A", "B", "C", "D", "E", "F", "G", "H">>
NUL == "NUL"
NoId == 0
NoOwner == 0

VARIABLES
    argc,            \* main's argc: the program name and its arguments
    str,             \* string str           (line 21), from argv[1]
    char_count,      \* int char_count       (line 22), from atoi(argv[2])
    thread_count,    \* int thread_count     (line 23), from atoi(argv[3])
    thread_ids,      \* vector<thread::id>   (line 26): identities stored so far
    allowed_thread,  \* int allowed_thread   (line 29)
    next_char,       \* int next_char        (line 30)
    mutex_lock,      \* mutex mutex_lock     (line 32): owner, or NoOwner
    pc,              \* each worker thread's position in print_thread
    main_pc,         \* the driver's position in run()
    spawned,         \* run()'s loop counter i
    emitted,         \* what print_chars wrote to cout, one record a call
                     \* (the first MaxTurns calls)
    crashed          \* the process was killed by a memory fault

printerVars ==
    <<argc, str, char_count, thread_count, thread_ids, allowed_thread,
      next_char, mutex_lock, pc, main_pc, spawned, emitted, crashed>>

\* ----------------------------------- src/Multithreading/pucerconsumer.cpp
\* The producer and consumer that hand a buffer over with two binary
\* semaphores, a program of its own.
buff_size == 5

VARIABLES
    signal_to_producer,  \* binary_semaphore signal_to_producer{1}: its count
    signal_to_consumer,  \* binary_semaphore signal_to_consumer{0}: its count
    buff,                \* int buff[buff_size], indexed from 0
    producer_pc,         \* the producer thread's position in producer()
    producer_i,          \* producer()'s loop variable i
    consumer_pc,         \* the consumer thread's position in consumer()
    consumer_i,          \* consumer()'s loop variable i
    passes,              \* the headings written to cout, "Produced" or
                         \* "Consumed", one a pass (the first MaxPasses)
    shown                \* the number written to cout last

semVars ==
    <<signal_to_producer, signal_to_consumer, buff, producer_pc, producer_i,
      consumer_pc, consumer_i, passes, shown>>

\* The globals as initialised (lines 25-33), main not yet having created a
\* thread.
SemInit ==
    /\ signal_to_producer = 1
    /\ signal_to_consumer = 0
    /\ buff = [i \in 0..(buff_size - 1) |-> 0]
    /\ producer_pc = "unborn"
    /\ producer_i = 0
    /\ consumer_pc = "unborn"
    /\ consumer_i = 0
    /\ passes = <<>>
    /\ shown = 0

\* --------------------------------------------------- src/unnamed/part_011
\* The producer and consumer that share a deque under a mutex and a
\* condition variable, a program of its own.
NoThread == "none"
CvThreads == {"producer", "consumer"}

VARIABLES
    buffer,     \* std::deque<int> buffer, front first
    mu,         \* std::mutex mu: the thread that owns it, or NoThread
    val,        \* producer's parameter val, counted down
    taken,      \* consumer's local val: what it took last
    cv_pc,      \* each thread's position in producer() or consumer()
    undefined   \* pop_back() was called on an empty deque

bufVars == <<buffer, mu, val, taken, cv_pc, undefined>>

\* The globals as initialised (lines 110-113), main not yet having created a
\* thread; val is the argument main will pass.
BufInit ==
    /\ buffer = <<>>
    /\ mu = NoThread
    /\ val = MaxVal
    /\ taken = 0
    /\ cv_pc = [t \in CvThreads |-> "unborn"]
    /\ undefined = FALSE

\* --------------------------------------------------- src/unnamed/part_009
\* The two threads that lock two mutexes in opposite orders, a program of
\* its own.
LockThreads == {"thread1", "thread2"}
Mutexes == {"m1", "m2"}

VARIABLES
    held,       \* std::mutex m1, m2: the thread that owns each, or NoThread
    lock_pc,    \* each thread's position in thread1() or thread2()
    lock_main,  \* the position of main
    mutex_ops,  \* the operations on m1 and m2 in the order they took
                \* effect: the interleaving as the mutexes see it
    printed     \* the critical sections announced on cout, in order

lockVars == <<held, lock_pc, lock_main, mutex_ops, printed>>

\* The globals as initialised (lines 235-236), main entered.
LockInit ==
    /\ held = [m \in Mutexes |-> NoThread]
    /\ lock_pc = [t \in LockThreads |-> "unborn"]
    /\ lock_main = "create1"
    /\ mutex_ops = <<>>
    /\ printed = <<>>

\* The programs other than the printer, which the printer leaves alone.
others == <<semVars, bufVars, lockVars>>

vars == <<printerVars, semVars, bufVars, lockVars>>

config == <<argc, str, char_count, thread_count>>

Min(a, b) == IF a < b THEN a ELSE b

Workers == 1..thread_count
StrLen == Len(str)
CharDomain == {str[i] : i \in 1..Len(str)} \cup {NUL}

\* ----------------------------------------------- main, MyPrinter::MyPrinter
\* The process as main is entered: a command line of argc words whose first
\* three arguments read as a string of one of the lengths Lens, a chunk size
\* in Chunks and a thread count in Threads (atoi yields any int, 0 for text
\* that is no number), and the members as the constructor will set them.
Start(Argcs, Lens, Chunks, Threads) ==
    /\ argc \in Argcs
    /\ \E L \in Lens : str = SubSeq(Alphabet, 1, L)
    /\ char_count \in Chunks
    /\ thread_count \in Threads
    /\ thread_ids = <<>>
    /\ allowed_thread = 0
    /\ next_char = 0
    /\ mutex_lock = NoOwner
    /\ pc = [w \in 1..thread_count |-> "unborn"]
    /\ main_pc = "main"
    /\ spawned = 0
    /\ emitted = <<>>
    /\ crashed = FALSE
    /\ SemInit
    /\ BufInit
    /\ LockInit

\* Command lines of any length whose three values are all positive.
Init == Start(1..MaxArgc, 1..MaxLen, 1..MaxChunk, 1..MaxThreads)

\* The printer program not run: no argument, main not entered.
PrinterIdle == Start({1}, {1}, {1}, {1})

\* Command lines of any length and any values: the string may be empty, the
\* chunk size and the thread count zero or negative.
AnyInit == Start(1..MaxArgc, 0..MaxLen, (-1)..MaxChunk, (-1)..MaxThreads)

\* -------------------------------------------------------------- vector reads
\* run() appends to thread_ids with no lock held (line 78) while the workers
\* read it (lines 96, 124, 56): no read is ordered with a push_back to come,
\* which is a data race.
Pushing == main_pc = "pushing"
Registering == main_pc # "join"

\* The values the comparison of line 96 may find in thread_ids.size().  While
\* run() still appends, the spin loop has no synchronisation and no side
\* effect: the read may be torn, and an optimising build (g++ -O2) drops the
\* loop and lets the worker through at once.  Any count, then.
SizeReads == IF Registering THEN 0..MaxThreads ELSE {Len(thread_ids)}

\* The values thread_ids[k] may yield (line 124), k counted from 0: the stored
\* identity, or, when the read overlaps a push_back (which may move the storage)
\* or lies past the end, whatever that memory holds.  The program stores the
\* k-th thread's identity in slot k of every buffer it fills and nowhere else,
\* so what a stray read finds is no other thread's identity: NoId.
ElemReads(k) ==
    IF k < Len(thread_ids)
    THEN {thread_ids[k + 1]} \cup (IF Pushing THEN {NoId} ELSE {})
    ELSE {NoId}

\* thread_ids[k] past the end of the storage may also fault.
ElemFaults(k) == k >= Len(thread_ids)

\* ------------------------------------------------------------ MyPrinter::run
\* Mutant: the loop runs once too often.
LoopContinues_OffByOne(i) == i <= thread_count

\* for (int i = 0; i < thread_count; i++)
LoopContinues(i) == i < thread_count

\* Mutant: only a command line that is too long is turned away.
ArgcBad_TooLong(a) == a > 4

\* if (argc != 4)
ArgcBad(a) == a # 4

\* main up to the first thread: a command line without exactly three
\* arguments gets the usage message and exit status 1; any other is read
\* with atoi, the MyPrinter is constructed whatever the values are, and run()
\* is entered.  With no thread to create run() returns at once and main
\* returns 0.
Main ==
    /\ ~crashed
    /\ main_pc = "main"
    /\ main_pc' = IF ArgcBad(argc) THEN "usage"
                  ELSE IF LoopContinues(0) THEN "spawn" ELSE "done"
    /\ UNCHANGED <<others, config, thread_ids, allowed_thread, next_char, mutex_lock,
                   pc, spawned, emitted, crashed>>

\* thread t(&MyPrinter::print_thread, this): the new thread starts running.
Spawn ==
    /\ ~crashed
    /\ main_pc = "spawn"
    /\ LoopContinues(spawned)
    /\ pc' = [pc EXCEPT ![spawned + 1] = "barrier"]
    /\ main_pc' = "push"
    /\ UNCHANGED <<others, config, thread_ids, allowed_thread, next_char, mutex_lock,
                   spawned, emitted, crashed>>

\* Mutant: the driver registers its own identity, not the new thread's.
PushBegin_OwnId ==
    /\ ~crashed
    /\ main_pc = "push"
    /\ thread_ids' = Append(thread_ids, NoId)
    /\ main_pc' = "pushing"
    /\ UNCHANGED <<others, config, allowed_thread, next_char, mutex_lock, pc,
                   spawned, emitted, crashed>>

\* thread_ids.push_back(t.get_id()) begins: the identity is stored.
PushBegin ==
    /\ ~crashed
    /\ main_pc = "push"
    /\ thread_ids' = Append(thread_ids, spawned + 1)
    /\ main_pc' = "pushing"
    /\ UNCHANGED <<others, config, allowed_thread, next_char, mutex_lock, pc, spawned,
                   emitted, crashed>>

\* push_back returns: the new size is published; threads.push_back; i++.
\* After the last iteration the driver blocks in threads[0].join() for good.
PushEnd ==
    /\ ~crashed
    /\ main_pc = "pushing"
    /\ spawned' = spawned + 1
    /\ main_pc' = IF LoopContinues(spawned + 1) THEN "spawn" ELSE "join"
    /\ UNCHANGED <<others, config, thread_ids, allowed_thread, next_char, mutex_lock,
                   pc, emitted, crashed>>

\* ------------------------------------------- MyPrinter::waitforallthreadinit
BarrierOpen == thread_count \in SizeReads

\* One iteration of the spin loop finds thread_count == thread_ids.size() and
\* returns.  An iteration that finds them different changes no state.
BarrierPass(w) ==
    /\ ~crashed
    /\ pc[w] = "barrier"
    /\ BarrierOpen
    /\ pc' = [pc EXCEPT ![w] = "sleep"]
    /\ UNCHANGED <<others, config, thread_ids, allowed_thread, next_char, mutex_lock,
                   main_pc, spawned, emitted, crashed>>

\* ---------------------------------------------------- MyPrinter::print_thread
\* this_thread::sleep_for(1000 ms)
Sleep(w) ==
    /\ ~crashed
    /\ pc[w] = "sleep"
    /\ pc' = [pc EXCEPT ![w] = "lock"]
    /\ UNCHANGED <<others, config, thread_ids, allowed_thread, next_char, mutex_lock,
                   main_pc, spawned, emitted, crashed>>

\* Mutant: the lock is taken whoever owns it.
MutexFree_Ignored == TRUE

\* The mutex can be locked: nobody owns it.
MutexFree == mutex_lock = NoOwner

\* unique_lock<mutex> lock(mutex_lock)
Lock(w) ==
    /\ ~crashed
    /\ pc[w] = "lock"
    /\ MutexFree
    /\ mutex_lock' = w
    /\ pc' = [pc EXCEPT ![w] = "check"]
    /\ UNCHANGED <<others, config, thread_ids, allowed_thread, next_char, main_pc,
                   spawned, emitted, crashed>>

\* Mutant: the predicate lets every waiter through.
MyTurn_Always(w, v) == TRUE

\* The predicate of cv.wait: this_thread::get_id() == thread_ids[allowed_thread]
MyTurn(w, v) == v = w

\* The predicate is true: cv.wait returns with the lock held.
TurnGranted(w) ==
    /\ ~crashed
    /\ pc[w] = "check"
    /\ \E v \in ElemReads(allowed_thread) : MyTurn(w, v)
    /\ pc' = [pc EXCEPT ![w] = "print"]
    /\ UNCHANGED <<others, config, thread_ids, allowed_thread, next_char, mutex_lock,
                   main_pc, spawned, emitted, crashed>>

\* Mutant: the wait blocks without releasing the lock.
TurnWait_KeepsLock(w) ==
    /\ ~crashed
    /\ pc[w] = "check"
    /\ \E v \in ElemReads(allowed_thread) : ~MyTurn(w, v)
    /\ pc' = [pc EXCEPT ![w] = "blocked"]
    /\ UNCHANGED <<others, config, thread_ids, allowed_thread, next_char,
                   mutex_lock, main_pc, spawned, emitted, crashed>>

\* The predicate is false: the wait releases the lock and blocks, atomically.
TurnWait(w) ==
    /\ ~crashed
    /\ pc[w] = "check"
    /\ \E v \in ElemReads(allowed_thread) : ~MyTurn(w, v)
    /\ mutex_lock' = NoOwner
    /\ pc' = [pc EXCEPT ![w] = "blocked"]
    /\ UNCHANGED <<others, config, thread_ids, allowed_thread, next_char, main_pc,
                   spawned, emitted, crashed>>

\* The predicate reads past the end of thread_ids and the process is killed.
TurnFault(w) ==
    /\ ~crashed
    /\ pc[w] = "check"
    /\ ElemFaults(allowed_thread)
    /\ crashed' = TRUE
    /\ UNCHANGED <<others, config, thread_ids, allowed_thread, next_char, mutex_lock,
                   pc, main_pc, spawned, emitted>>

\* A condition variable may wake a waiter that nobody notified.
SpuriousWake(w) ==
    /\ ~crashed
    /\ pc[w] = "blocked"
    /\ pc' = [pc EXCEPT ![w] = "woken"]
    /\ UNCHANGED <<others, config, thread_ids, allowed_thread, next_char, mutex_lock,
                   main_pc, spawned, emitted, crashed>>

\* A woken waiter takes the lock again and evaluates the predicate again.
Reacquire(w) ==
    /\ ~crashed
    /\ pc[w] = "woken"
    /\ MutexFree
    /\ mutex_lock' = w
    /\ pc' = [pc EXCEPT ![w] = "check"]
    /\ UNCHANGED <<others, config, thread_ids, allowed_thread, next_char, main_pc,
                   spawned, emitted, crashed>>

\* ----------------------------------------------- MyPrinter::getCurrentThreadId
IndexOf(w) ==
    IF \E k \in 1..Len(thread_ids) : thread_ids[k] = w
    THEN (CHOOSE k \in 1..Len(thread_ids) :
            /\ thread_ids[k] = w
            /\ \A j \in 1..(k - 1) : thread_ids[j] # w) - 1
    ELSE -1

\* The scan reads thread_ids too: racing with push_back it may miss the caller.
CurrentThreadIds(w) == {IndexOf(w)} \cup (IF Pushing THEN {-1} ELSE {})

\* ------------------------------------------------------ MyPrinter::print_chars
\* int i < size_t n compares i as unsigned: a negative i is not below n.
Below(i, n) == i >= 0 /\ i < n

\* The first loop: i from next_char while i < str.length() && printcount < char_count
FirstLoop(c) ==
    LET n == IF Below(c, StrLen) THEN Min(StrLen - c, char_count) ELSE 0
    IN  [j \in 1..n |-> c + j - 1]

\* The second loop: if (printcount < char_count), i from 0 below char_count - printcount
SecondLoop(printcount) ==
    IF printcount < char_count
    THEN [j \in 1..(char_count - printcount) |-> j - 1]
    ELSE <<>>

\* The indices print_chars reads str at, in order.
ReadIndices(c) == FirstLoop(c) \o SecondLoop(Len(FirstLoop(c)))

\* str[i]: the character; at i == length the terminator; beyond, any byte.
CharReads(i) ==
    IF i < StrLen THEN {str[i + 1]}
    ELSE IF i = StrLen THEN {NUL}
    ELSE CharDomain

\* next_char = next_char + char_count
NextCursor(c) == c + char_count

\* One call of print_chars, made with the lock held: the characters written
\* and the cursor moved on.  A cursor beyond MaxCursor is not followed.
PrintChars(w) ==
    /\ ~crashed
    /\ pc[w] = "print"
    /\ NextCursor(next_char) \in (-MaxCursor)..MaxCursor
    /\ LET idx == ReadIndices(next_char)
       IN  \E chunk \in [1..Len(idx) -> CharDomain], id \in CurrentThreadIds(w) :
             /\ \A j \in 1..Len(idx) : chunk[j] \in CharReads(idx[j])
             /\ emitted' = IF Len(emitted) < MaxTurns
                           THEN Append(emitted, [who |-> w, id |-> id,
                                                 turn |-> allowed_thread,
                                                 from |-> next_char,
                                                 reads |-> idx, chunk |-> chunk])
                           ELSE emitted
    /\ next_char' = NextCursor(next_char)
    /\ pc' = [pc EXCEPT ![w] = "advance"]
    /\ UNCHANGED <<others, config, thread_ids, allowed_thread, mutex_lock, main_pc,
                   spawned, crashed>>

\* Mutants: the increment is forgotten; the reset to 0 is forgotten.
NextAllowed_Stay(a) == a
NextAllowed_NoReset(a) == a + 1

\* allowed_thread++; if (allowed_thread == thread_count) allowed_thread = 0;
NextAllowed(a) == IF a + 1 = thread_count THEN 0 ELSE a + 1

AdvanceTurn(w) ==
    /\ ~crashed
    /\ pc[w] = "advance"
    /\ allowed_thread' = NextAllowed(allowed_thread)
    /\ pc' = [pc EXCEPT ![w] = "wrap"]
    /\ UNCHANGED <<others, config, thread_ids, next_char, mutex_lock, main_pc, spawned,
                   emitted, crashed>>

\* Mutant: the subtraction is left out.
Wrapped_Never(c) == c

\* if (next_char >= str.length()) next_char -= str.length();
Wrapped(c) == IF ~Below(c, StrLen) THEN c - StrLen ELSE c

WrapCursor(w) ==
    /\ ~crashed
    /\ pc[w] = "wrap"
    /\ next_char' = Wrapped(next_char)
    /\ pc' = [pc EXCEPT ![w] = "unlock"]
    /\ UNCHANGED <<others, config, thread_ids, allowed_thread, mutex_lock, main_pc,
                   spawned, emitted, crashed>>

\* lock.unlock()
Unlock(w) ==
    /\ ~crashed
    /\ pc[w] = "unlock"
    /\ mutex_lock' = NoOwner
    /\ pc' = [pc EXCEPT ![w] = "notify"]
    /\ UNCHANGED <<others, config, thread_ids, allowed_thread, next_char, main_pc,
                   spawned, emitted, crashed>>

\* cv.notify_all(): every waiter is woken; the notifier loops to the barrier.
NotifyAll(w) ==
    /\ ~crashed
    /\ pc[w] = "notify"
    /\ pc' = [v \in DOMAIN pc |->
                IF v = w THEN "barrier"
                ELSE IF pc[v] = "blocked" THEN "woken" ELSE pc[v]]
    /\ UNCHANGED <<others, config, thread_ids, allowed_thread, next_char, mutex_lock,
                   main_pc, spawned, emitted, crashed>>

Next ==
    \/ Main
    \/ Spawn
    \/ PushBegin
    \/ PushEnd
    \/ \E w \in Workers : BarrierPass(w)
    \/ \E w \in Workers : Sleep(w)
    \/ \E w \in Workers : Lock(w)
    \/ \E w \in Workers : TurnGranted(w)
    \/ \E w \in Workers : TurnWait(w)
    \/ \E w \in Workers : TurnFault(w)
    \/ \E w \in Workers : SpuriousWake(w)
    \/ \E w \in Workers : Reacquire(w)
    \/ \E w \in Workers : PrintChars(w)
    \/ \E w \in Workers : AdvanceTurn(w)
    \/ \E w \in Workers : WrapCursor(w)
    \/ \E w \in Workers : Unlock(w)
    \/ \E w \in Workers : NotifyAll(w)

Spec == Init /\ [][Next]_vars

\* The program on every command line, the invalid ones included.
AnySpec == AnyInit /\ [][Next]_vars

\* --------------------------------------------------------- the chunk read
\* print_chars and the wrap of print_thread as a function of the cursor: one
\* registered worker, past run(), takes turns from a cursor anywhere in the
\* string, with a chunk no longer than the string.
ReadInit ==
    /\ argc = 4
    /\ \E L \in 1..MaxLen : str = SubSeq(Alphabet, 1, L)
    /\ char_count \in 1..Len(str)
    /\ thread_count = 1
    /\ thread_ids = <<1>>
    /\ allowed_thread = 0
    /\ next_char \in 0..(Len(str) - 1)
    /\ mutex_lock = NoOwner
    /\ pc = [w \in 1..thread_count |-> "barrier"]
    /\ main_pc = "join"
    /\ spawned = 1
    /\ emitted = <<>>
    /\ crashed = FALSE
    /\ SemInit
    /\ BufInit
    /\ LockInit

ReadNext ==
    \/ \E w \in Workers : BarrierPass(w)
    \/ \E w \in Workers : Sleep(w)
    \/ \E w \in Workers : Lock(w)
    \/ \E w \in Workers : TurnGranted(w)
    \/ \E w \in Workers : PrintChars(w)
    \/ \E w \in Workers : AdvanceTurn(w)
    \/ \E w \in Workers : WrapCursor(w)
    \/ \E w \in Workers : Unlock(w)
    \/ \E w \in Workers : NotifyAll(w)

ReadSpec == ReadInit /\ [][ReadNext]_vars

\* ------------------------------------------------------------ fair scheduling
\* Every thread that can run keeps running; a thread that can take the mutex
\* again and again gets it in the end.  A spurious wake-up and a memory fault
\* may happen and need not.  The chunk is no longer than the string, so that
\* the cursor stays within MaxCursor and nothing but the program stops a turn.
LiveInit == Init /\ argc = 4 /\ char_count <= Len(str)

FairWorker(w) ==
    /\ WF_vars(w \in Workers /\ BarrierPass(w))
    /\ WF_vars(w \in Workers /\ Sleep(w))
    /\ SF_vars(w \in Workers /\ Lock(w))
    /\ WF_vars(w \in Workers /\ (TurnGranted(w) \/ TurnWait(w)))
    /\ SF_vars(w \in Workers /\ Reacquire(w))
    /\ WF_vars(w \in Workers /\ PrintChars(w))
    /\ WF_vars(w \in Workers /\ AdvanceTurn(w))
    /\ WF_vars(w \in Workers /\ WrapCursor(w))
    /\ WF_vars(w \in Workers /\ Unlock(w))
    /\ WF_vars(w \in Workers /\ NotifyAll(w))

Fairness ==
    /\ WF_vars(Main)
    /\ WF_vars(Spawn) /\ WF_vars(PushBegin) /\ WF_vars(PushEnd)
    /\ \A w \in 1..MaxThreads : FairWorker(w)

LiveSpec == LiveInit /\ [][Next]_vars /\ Fairness

\* ====================================== src/Multithreading/pucerconsumer.cpp
\* main: thread producer_thread(producer); thread consumer_thread(consumer);
\* and then the joins, which never return.
StartProducer ==
    /\ producer_pc = "unborn"
    /\ producer_pc' = "acquire"
    /\ UNCHANGED <<printerVars, bufVars, lockVars, signal_to_producer, signal_to_consumer, buff,
                   producer_i, consumer_pc, consumer_i, passes, shown>>

StartConsumer ==
    /\ producer_pc # "unborn"
    /\ consumer_pc = "unborn"
    /\ consumer_pc' = "acquire"
    /\ UNCHANGED <<printerVars, bufVars, lockVars, signal_to_producer, signal_to_consumer, buff,
                   producer_pc, producer_i, consumer_i, passes, shown>>

\* Mutant: acquire() returns whatever the count is.
CanAcquire_Always(s) == TRUE

\* acquire() returns, taking the count down by one, once the count is not 0.
CanAcquire(s) == s > 0

\* A heading written to cout.
Heading(h) == IF Len(passes) < MaxPasses THEN Append(passes, h) ELSE passes

\* signal_to_producer.acquire(); cout << "Produced = "; i = 0
ProducerAcquire ==
    /\ producer_pc = "acquire"
    /\ CanAcquire(signal_to_producer)
    /\ signal_to_producer' = signal_to_producer - 1
    /\ passes' = Heading("Produced")
    /\ producer_i' = 0
    /\ producer_pc' = "fill"
    /\ UNCHANGED <<printerVars, bufVars, lockVars, signal_to_consumer, buff, consumer_pc,
                   consumer_i, shown>>

\* i < buff_size: buff[i] = i * i
ProducerStore ==
    /\ producer_pc = "fill"
    /\ producer_i < buff_size
    /\ buff' = [buff EXCEPT ![producer_i] = producer_i * producer_i]
    /\ producer_pc' = "show"
    /\ UNCHANGED <<printerVars, bufVars, lockVars, signal_to_producer, signal_to_consumer,
                   producer_i, consumer_pc, consumer_i, passes, shown>>

\* cout << buff[i]
ProducerShow ==
    /\ producer_pc = "show"
    /\ shown' = buff[producer_i]
    /\ producer_pc' = "sleep"
    /\ UNCHANGED <<printerVars, bufVars, lockVars, signal_to_producer, signal_to_consumer, buff,
                   producer_i, consumer_pc, consumer_i, passes>>

\* sleep_for(200 ms); ++i
ProducerSleep ==
    /\ producer_pc = "sleep"
    /\ producer_i' = producer_i + 1
    /\ producer_pc' = "fill"
    /\ UNCHANGED <<printerVars, bufVars, lockVars, signal_to_producer, signal_to_consumer, buff,
                   consumer_pc, consumer_i, passes, shown>>

\* The loop is over: cout << endl; signal_to_consumer.release(); and again.
ProducerRelease ==
    /\ producer_pc = "fill"
    /\ ~(producer_i < buff_size)
    /\ signal_to_consumer' = signal_to_consumer + 1
    /\ producer_pc' = "acquire"
    /\ UNCHANGED <<printerVars, bufVars, lockVars, signal_to_producer, buff, producer_i,
                   consumer_pc, consumer_i, passes, shown>>

\* signal_to_consumer.acquire(); cout << "Consumed = "; i = buff_size - 1
ConsumerAcquire ==
    /\ consumer_pc = "acquire"
    /\ CanAcquire(signal_to_consumer)
    /\ signal_to_consumer' = signal_to_consumer - 1
    /\ passes' = Heading("Consumed")
    /\ consumer_i' = buff_size - 1
    /\ consumer_pc' = "drain"
    /\ UNCHANGED <<printerVars, bufVars, lockVars, signal_to_producer, buff, producer_pc,
                   producer_i, shown>>

\* i >= 0: cout << buff[i]
ConsumerShow ==
    /\ consumer_pc = "drain"
    /\ consumer_i >= 0
    /\ shown' = buff[consumer_i]
    /\ consumer_pc' = "take"
    /\ UNCHANGED <<printerVars, bufVars, lockVars, signal_to_producer, signal_to_consumer, buff,
                   producer_pc, producer_i, consumer_i, passes>>

\* buff[i] = 0
ConsumerTake ==
    /\ consumer_pc = "take"
    /\ buff' = [buff EXCEPT ![consumer_i] = 0]
    /\ consumer_pc' = "sleep"
    /\ UNCHANGED <<printerVars, bufVars, lockVars, signal_to_producer, signal_to_consumer,
                   producer_pc, producer_i, consumer_i, passes, shown>>

\* sleep_for(200 ms); --i
ConsumerSleep ==
    /\ consumer_pc = "sleep"
    /\ consumer_i' = consumer_i - 1
    /\ consumer_pc' = "drain"
    /\ UNCHANGED <<printerVars, bufVars, lockVars, signal_to_producer, signal_to_consumer, buff,
                   producer_pc, producer_i, passes, shown>>

\* The loop is over: cout << endl << endl; signal_to_producer.release().
ConsumerRelease ==
    /\ consumer_pc = "drain"
    /\ ~(consumer_i >= 0)
    /\ signal_to_producer' = signal_to_producer + 1
    /\ consumer_pc' = "acquire"
    /\ UNCHANGED <<printerVars, bufVars, lockVars, signal_to_consumer, buff, producer_pc,
                   producer_i, consumer_i, passes, shown>>

SemNext ==
    \/ StartProducer
    \/ StartConsumer
    \/ ProducerAcquire
    \/ ProducerStore
    \/ ProducerShow
    \/ ProducerSleep
    \/ ProducerRelease
    \/ ConsumerAcquire
    \/ ConsumerShow
    \/ ConsumerTake
    \/ ConsumerSleep
    \/ ConsumerRelease

\* Both threads keep running: a sleep ends, and an acquire() returns once the
\* count stays above 0 (each semaphore has one thread waiting for it).
SemFairness ==
    /\ WF_vars(StartProducer) /\ WF_vars(StartConsumer)
    /\ WF_vars(ProducerAcquire) /\ WF_vars(ProducerStore)
    /\ WF_vars(ProducerShow) /\ WF_vars(ProducerSleep)
    /\ WF_vars(ProducerRelease)
    /\ WF_vars(ConsumerAcquire) /\ WF_vars(ConsumerShow)
    /\ WF_vars(ConsumerTake) /\ WF_vars(ConsumerSleep)
    /\ WF_vars(ConsumerRelease)

SemSpec == PrinterIdle /\ [][SemNext]_vars /\ SemFairness

\* =================================================== src/unnamed/part_011
\* main: std::thread t1(producer, 100); std::thread t2(consumer);
CvStart(t) ==
    /\ ~undefined
    /\ cv_pc[t] = "unborn"
    /\ t = "consumer" => cv_pc["producer"] # "unborn"
    /\ cv_pc' = [cv_pc EXCEPT ![t] = "loop"]
    /\ UNCHANGED <<printerVars, semVars, lockVars, buffer, mu, val, taken, undefined>>

\* while (val) in producer, while (true) in consumer.
LoopOn(t) == t = "consumer" \/ val # 0

CvLoop(t) ==
    /\ ~undefined
    /\ cv_pc[t] = "loop"
    /\ cv_pc' = [cv_pc EXCEPT ![t] = IF LoopOn(t) THEN "lock" ELSE "done"]
    /\ UNCHANGED <<printerVars, semVars, lockVars, buffer, mu, val, taken, undefined>>

\* std::unique_lock<std::mutex> locker(mu)
CvLock(t) ==
    /\ ~undefined
    /\ cv_pc[t] = "lock"
    /\ mu = NoThread
    /\ mu' = t
    /\ cv_pc' = [cv_pc EXCEPT ![t] = "check"]
    /\ UNCHANGED <<printerVars, semVars, lockVars, buffer, val, taken, undefined>>

\* Mutant: the producer goes on while the buffer is not over its capacity.
CanPush_OneMore(n) == n <= maxBufferSize

\* The predicates: buffer.size() < maxBufferSize, buffer.size() > 0.
CanPush(n) == n < maxBufferSize
CanPop(n) == n > 0

Ready(t) ==
    IF t = "producer" THEN CanPush(Len(buffer)) ELSE CanPop(Len(buffer))

\* cond.wait(locker, pred), the predicate evaluated with mu held: true, the
\* wait returns; false, it releases mu and blocks, atomically.
CvWait(t) ==
    /\ ~undefined
    /\ cv_pc[t] = "check"
    /\ IF Ready(t)
       THEN /\ cv_pc' = [cv_pc EXCEPT ![t] = "critical"]
            /\ mu' = mu
       ELSE /\ cv_pc' = [cv_pc EXCEPT ![t] = "waiting"]
            /\ mu' = NoThread
    /\ UNCHANGED <<printerVars, semVars, lockVars, buffer, val, taken, undefined>>

\* A waiter may wake without a notification.
CvSpuriousWake(t) ==
    /\ ~undefined
    /\ cv_pc[t] = "waiting"
    /\ cv_pc' = [cv_pc EXCEPT ![t] = "woken"]
    /\ UNCHANGED <<printerVars, semVars, lockVars, buffer, mu, val, taken, undefined>>

\* A woken waiter locks mu again and evaluates the predicate again.
CvReacquire(t) ==
    /\ ~undefined
    /\ cv_pc[t] = "woken"
    /\ mu = NoThread
    /\ mu' = t
    /\ cv_pc' = [cv_pc EXCEPT ![t] = "check"]
    /\ UNCHANGED <<printerVars, semVars, lockVars, buffer, val, taken, undefined>>

\* buffer.push_back(val); cout << val; --val
ProducerPush ==
    /\ ~undefined
    /\ cv_pc["producer"] = "critical"
    /\ buffer' = Append(buffer, val)
    /\ val' = val - 1
    /\ cv_pc' = [cv_pc EXCEPT !["producer"] = "unlock"]
    /\ UNCHANGED <<printerVars, semVars, lockVars, mu, taken, undefined>>

\* int val = buffer.back(); buffer.pop_back(); cout << val.  On an empty
\* deque both calls are undefined.
ConsumerPop ==
    /\ ~undefined
    /\ cv_pc["consumer"] = "critical"
    /\ IF buffer = <<>>
       THEN /\ undefined' = TRUE
            /\ UNCHANGED <<buffer, taken>>
       ELSE /\ taken' = buffer[Len(buffer)]
            /\ buffer' = SubSeq(buffer, 1, Len(buffer) - 1)
            /\ undefined' = undefined
    /\ cv_pc' = [cv_pc EXCEPT !["consumer"] = "unlock"]
    /\ UNCHANGED <<printerVars, semVars, lockVars, mu, val>>

\* locker.unlock()
CvUnlock(t) ==
    /\ ~undefined
    /\ cv_pc[t] = "unlock"
    /\ mu' = NoThread
    /\ cv_pc' = [cv_pc EXCEPT ![t] = "notify"]
    /\ UNCHANGED <<printerVars, semVars, lockVars, buffer, val, taken, undefined>>

\* Mutant: the notification is left out.
CvNotify_Lost(t) ==
    /\ ~undefined
    /\ cv_pc[t] = "notify"
    /\ cv_pc' = [cv_pc EXCEPT ![t] = "loop"]
    /\ UNCHANGED <<printerVars, semVars, lockVars, buffer, mu, val, taken, undefined>>

\* cond.notify_one(): one of the threads waiting, if there is one, is woken.
CvNotify(t) ==
    /\ ~undefined
    /\ cv_pc[t] = "notify"
    /\ LET waiters == {u \in CvThreads : cv_pc[u] = "waiting"}
       IN  IF waiters = {}
           THEN cv_pc' = [cv_pc EXCEPT ![t] = "loop"]
           ELSE \E u \in waiters :
                  cv_pc' = [cv_pc EXCEPT ![t] = "loop", ![u] = "woken"]
    /\ UNCHANGED <<printerVars, semVars, lockVars, buffer, mu, val, taken, undefined>>

BufNext ==
    \/ \E t \in CvThreads : CvStart(t)
    \/ \E t \in CvThreads : CvLoop(t)
    \/ \E t \in CvThreads : CvLock(t)
    \/ \E t \in CvThreads : CvWait(t)
    \/ \E t \in CvThreads : CvSpuriousWake(t)
    \/ \E t \in CvThreads : CvReacquire(t)
    \/ ProducerPush
    \/ ConsumerPop
    \/ \E t \in CvThreads : CvUnlock(t)
    \/ \E t \in CvThreads : CvNotify(t)

BufSpec == PrinterIdle /\ [][BufNext]_vars

\* Both threads keep running, and a thread that can take mu again and again
\* gets it in the end.  A spurious wake-up may happen and need not.
CvFair(t) ==
    /\ WF_vars(CvStart(t))
    /\ WF_vars(CvLoop(t))
    /\ SF_vars(CvLock(t))
    /\ WF_vars(CvWait(t))
    /\ SF_vars(CvReacquire(t))
    /\ WF_vars(CvUnlock(t))
    /\ WF_vars(CvNotify(t))

BufFairness ==
    /\ \A t \in CvThreads : CvFair(t)
    /\ WF_vars(ProducerPush)
    /\ WF_vars(ConsumerPop)

BufLiveSpec == PrinterIdle /\ [][BufNext]_vars /\ BufFairness

\* =================================================== src/unnamed/part_009
\* The mutexes a thread locks, in its order: thread1 m1 then m2, thread2 m2
\* then m1.
Order(t) == IF t = "thread1" THEN <<"m1", "m2">> ELSE <<"m2", "m1">>


\* The n-th mutex thread t locks.
Wanted(t, n) == Order(t)[n]

\* main: thread t1(thread1); thread t2(thread2);
LockCreate(t) ==
    /\ lock_main = IF t = "thread1" THEN "create1" ELSE "create2"
    /\ lock_pc' = [lock_pc EXCEPT ![t] = "lock1"]
    /\ lock_main' = IF t = "thread1" THEN "create2" ELSE "join1"
    /\ UNCHANGED <<printerVars, semVars, bufVars, held, mutex_ops, printed>>

\* main: t1.join(); t2.join(); return 0;  Each join returns once its thread
\* has returned.
LockJoin(t) ==
    /\ lock_main = IF t = "thread1" THEN "join1" ELSE "join2"
    /\ lock_pc[t] = "done"
    /\ lock_main' = IF t = "thread1" THEN "join2" ELSE "return"
    /\ UNCHANGED <<printerVars, semVars, bufVars, held, lock_pc, mutex_ops,
                   printed>>

\* The n-th lock() of thread t is called: the mutex is taken if nobody owns
\* it, and the thread waits for it otherwise.
LockCall(t, n) ==
    /\ lock_pc[t] = (IF n = 1 THEN "lock1" ELSE "lock2")
    /\ IF held[Wanted(t, n)] = NoThread
       THEN /\ held' = [held EXCEPT ![Wanted(t, n)] = t]
            /\ mutex_ops' = Append(mutex_ops, <<t, "lock", Wanted(t, n)>>)
            /\ lock_pc' = [lock_pc EXCEPT ![t] =
                                IF n = 1 THEN "lock2" ELSE "critical"]
       ELSE /\ held' = held
            /\ mutex_ops' = Append(mutex_ops, <<t, "block", Wanted(t, n)>>)
            /\ lock_pc' = [lock_pc EXCEPT ![t] =
                                IF n = 1 THEN "wait1" ELSE "wait2"]
    /\ UNCHANGED <<printerVars, semVars, bufVars, lock_main, printed>>

\* Mutant: a waiting thread is handed the mutex whoever owns it.
LockGranted_Steals(t, n) ==
    /\ lock_pc[t] = (IF n = 1 THEN "wait1" ELSE "wait2")
    /\ held' = [held EXCEPT ![Wanted(t, n)] = t]
    /\ mutex_ops' = Append(mutex_ops, <<t, "lock", Wanted(t, n)>>)
    /\ lock_pc' = [lock_pc EXCEPT ![t] = IF n = 1 THEN "lock2" ELSE "critical"]
    /\ UNCHANGED <<printerVars, semVars, bufVars, lock_main, printed>>

\* A thread waiting in lock() gets the mutex once nobody owns it.
LockGranted(t, n) ==
    /\ lock_pc[t] = (IF n = 1 THEN "wait1" ELSE "wait2")
    /\ held[Wanted(t, n)] = NoThread
    /\ held' = [held EXCEPT ![Wanted(t, n)] = t]
    /\ mutex_ops' = Append(mutex_ops, <<t, "lock", Wanted(t, n)>>)
    /\ lock_pc' = [lock_pc EXCEPT ![t] = IF n = 1 THEN "lock2" ELSE "critical"]
    /\ UNCHANGED <<printerVars, semVars, bufVars, lock_main, printed>>

\* cout << "Critical Section of Thread ..." << endl
LockCritical(t) ==
    /\ lock_pc[t] = "critical"
    /\ printed' = Append(printed, t)
    /\ lock_pc' = [lock_pc EXCEPT ![t] = "unlock2"]
    /\ UNCHANGED <<printerVars, semVars, bufVars, held, lock_main, mutex_ops>>

\* The unlocks, the mutex locked second first; then the thread returns.
LockRelease(t, n) ==
    /\ lock_pc[t] = (IF n = 2 THEN "unlock2" ELSE "unlock1")
    /\ held' = [held EXCEPT ![Wanted(t, n)] = NoThread]
    /\ mutex_ops' = Append(mutex_ops, <<t, "unlock", Wanted(t, n)>>)
    /\ lock_pc' = [lock_pc EXCEPT ![t] = IF n = 2 THEN "unlock1" ELSE "done"]
    /\ UNCHANGED <<printerVars, semVars, bufVars, lock_main, printed>>

LockNext ==
    \/ \E t \in LockThreads : LockCreate(t)
    \/ \E t \in LockThreads : LockJoin(t)
    \/ \E t \in LockThreads, n \in {1, 2} : LockCall(t, n)
    \/ \E t \in LockThreads, n \in {1, 2} : LockGranted(t, n)
    \/ \E t \in LockThreads : LockCritical(t)
    \/ \E t \in LockThreads, n \in {1, 2} : LockRelease(t, n)

\* Every thread that can run keeps running; a mutex that is free, or becomes
\* free again and again, is given to a thread waiting for it.
LockFairness ==
    /\ \A t \in LockThreads :
          /\ WF_vars(LockCreate(t)) /\ WF_vars(LockJoin(t))
          /\ WF_vars(LockCritical(t))
          /\ \A n \in {1, 2} :
                /\ WF_vars(LockCall(t, n))
                /\ SF_vars(LockGranted(t, n))
                /\ WF_vars(LockRelease(t, n))

LockSpec == PrinterIdle /\ [][LockNext]_vars /\ LockFairness

\* ================================================================== claims
\* The critical section of a turn: print_chars, the turn update, the cursor
\* wrap, up to lock.unlock() (lines 128-140).
InTurn(w) == pc[w] \in {"print", "advance", "wrap", "unlock"}

\* Past waitforallthreadinit in the current iteration of the loop.
PastBarrier(w) ==
    pc[w] \in {"sleep", "lock", "check", "blocked", "woken",
               "print", "advance", "wrap", "unlock", "notify"}

\* The step is w's allowed_thread update (lines 131-133).
AdvanceStep(w) == pc[w] = "advance" /\ pc'[w] = "wrap"

\* C1. Mutual exclusion: in every reachable state at most one worker is inside
\* the critical section of a turn, for every N >= 1 and every interleaving.
C1_MutualExclusion ==
    \A v \in Workers, w \in Workers : (InTurn(v) /\ InTurn(w)) => v = w

\* A worker is inside its turn while another one contends for the lock.
C1_Witness ==
    \E v \in Workers, w \in Workers :
        v # w /\ InTurn(v) /\ pc[w] \in {"lock", "woken"}

\* C2. Ordering: a worker is in the critical section of a turn, before its
\* chunk read, only in a state where thread_ids[allowed_thread] is itself.
C2_Ordering ==
    \A w \in Workers :
        pc[w] = "print" =>
            /\ allowed_thread < Len(thread_ids)
            /\ thread_ids[allowed_thread + 1] = w

\* The second worker of the rotation is about to read its chunk while the
\* first one waits.
C2_Witness ==
    \E v \in Workers, w \in Workers :
        v # w /\ pc[w] = "print" /\ allowed_thread = 1 /\ pc[v] = "blocked"

\* C3. Strict rotation: the k-th turn taken overall (k = 0, 1, ...) is taken by
\* the worker at thread_ids[k mod N].
C3_StrictRotation ==
    \A k \in 1..Len(emitted) :
        LET i == ((k - 1) % thread_count) + 1
        IN  i <= Len(thread_ids) /\ thread_ids[i] = emitted[k].who

\* More turns than workers have been taken by at least two workers: the
\* rotation has come round.
C3_Witness == thread_count >= 2 /\ Len(emitted) > thread_count

\* C4. allowed_thread is always in [0, N), each completed turn changes it
\* from t to (t + 1) mod N, and nothing else changes it.
C4_TurnIndex ==
    /\ [](allowed_thread \in 0..(thread_count - 1))
    /\ [][IF \E w \in Workers : AdvanceStep(w)
          THEN allowed_thread' = (allowed_thread + 1) % thread_count
          ELSE allowed_thread' = allowed_thread]_vars

\* The turn index has wrapped from N - 1 back to 0 with N >= 2.
C4_Witness ==
    /\ thread_count >= 2
    /\ Len(emitted) >= thread_count
    /\ allowed_thread = 0
    /\ \E w \in Workers : pc[w] = "wrap"

\* No turn is in the middle of updating the cursor.
CursorAtRest == \A w \in Workers : pc[w] \notin {"advance", "wrap"}

\* C5. Cursor correctness: for every L >= 1 and C >= 1 (C > L included), after
\* K completed turns the cursor equals (K * C) mod L.
C5_CursorCorrect ==
    (CursorAtRest /\ Len(emitted) < MaxTurns) =>
        next_char = (Len(emitted) * char_count) % StrLen

\* C6. Circular chunk read: the chunk of a turn that starts at cursor c has
\* exactly C elements and its i-th element is str[(c + i) mod L].
C6_CircularChunk ==
    \A k \in 1..Len(emitted) :
        /\ Len(emitted[k].chunk) = char_count
        /\ \A i \in 1..Len(emitted[k].chunk) :
             emitted[k].chunk[i] = str[((emitted[k].from + i - 1) % StrLen) + 1]

\* C7. Bounds: every index a turn reads str at lies in [0, L), and the cursor
\* lies in [0, L) whenever the lock is free.
C7_Bounds ==
    /\ \A k \in 1..Len(emitted) : \A j \in 1..Len(emitted[k].reads) :
           emitted[k].reads[j] \in 0..(StrLen - 1)
    /\ MutexFree => next_char \in 0..(StrLen - 1)

\* C8. Barrier correctness: no worker is past the barrier, and no turn has been
\* taken, in a state where thread_ids has fewer than N entries.
C8_Barrier ==
    Len(thread_ids) < thread_count =>
        /\ \A w \in Workers : ~PastBarrier(w)
        /\ emitted = <<>>
        /\ next_char = 0
        /\ allowed_thread = 0

\* C9. thread_ids is frozen once it has N entries: no later step changes it.
C9_TableFrozen ==
    [][Len(thread_ids) = thread_count => thread_ids' = thread_ids]_vars

\* The table is complete, the driver is in join and turns are being taken.
C9_Witness ==
    /\ Len(thread_ids) = thread_count
    /\ main_pc = "join"
    /\ Len(emitted) >= 2

\* C10. Infinite rotation: under fair scheduling every worker takes a turn
\* infinitely often; the rotation never stalls.
C10_InfiniteRotation ==
    \A w \in 1..MaxThreads : []<>(w > thread_count \/ pc[w] = "print")

\* C11. Emit contract: the worker index print_chars writes with each chunk is
\* the acting worker's position in thread_ids, which is the value allowed_thread
\* had when the turn began; it lies in 0..N-1 and is never the -1 that
\* getCurrentThreadId returns for an identity it does not find.
C11_EmitContract ==
    \A k \in 1..Len(emitted) :
        /\ emitted[k].id \in 0..(thread_count - 1)
        /\ emitted[k].id = IndexOf(emitted[k].who)
        /\ emitted[k].id = emitted[k].turn

\* A command line main accepts whose values make no schedule: chunkSize <= 0,
\* an empty sequence, or N <= 0.
InvalidConfig ==
    argc = 4 /\ (char_count <= 0 \/ Len(str) = 0 \/ thread_count <= 0)

\* The driver has entered run(), or has come back from it and returned 0.
Running == main_pc \in {"spawn", "push", "pushing", "join", "done"}

\* C12. Configuration validation: an invalid configuration is a fatal error
\* reported before any worker thread is spawned: the driver never enters
\* run() nor ends with success, no thread is created, no identity registered
\* and no turn taken.
C12_ConfigRejected ==
    InvalidConfig =>
        /\ ~Running
        /\ \A w \in Workers : pc[w] = "unborn"
        /\ thread_ids = <<>>
        /\ emitted = <<>>

\* C13. CLI guard: given fewer than three arguments (argc below 4) the driver
\* does nothing but print the usage message and exit with status 1: no
\* MyPrinter is constructed and run, no thread is created.
C13_CliGuard ==
    argc < 4 =>
        /\ main_pc \in {"main", "usage"}
        /\ \A w \in Workers : pc[w] = "unborn"
        /\ thread_ids = <<>>
        /\ emitted = <<>>

\* Two arguments were given and main has returned 1.
C13_Witness == argc = 3 /\ main_pc = "usage"

\* The mutex is held, and by no worker: by the driver, then.
LockHeldByDriver == ~MutexFree /\ mutex_lock \notin Workers

\* The workers at a statement that reads thread_ids: the barrier's size(),
\* the predicate's thread_ids[allowed_thread], getCurrentThreadId's scan.
TableReaders == {w \in Workers : pc[w] \in {"barrier", "check", "print"}}

\* C15. Registration is lock-protected: while an identity is being appended
\* to thread_ids the appending thread holds mutex_lock, and no other thread
\* is at a read of the table.
C15_LockedAppend == Pushing => (LockHeldByDriver /\ TableReaders = {})

\* C16. Single worker: with N = 1 the worker's turn condition is true each
\* time it is evaluated, so the worker never blocks in cv.wait; allowed_thread
\* is 0 after every turn and every turn is the worker's own.
C16_SingleWorker ==
    thread_count = 1 =>
        /\ pc[1] = "check" =>
              /\ \A v \in ElemReads(allowed_thread) : MyTurn(1, v)
              /\ ~ElemFaults(allowed_thread)
        /\ pc[1] \notin {"blocked", "woken"}
        /\ pc[1] \notin {"advance"} => allowed_thread = 0
        /\ \A k \in 1..Len(emitted) : emitted[k].who = 1

\* What the scheduler keeps besides its configuration.
scheduler == <<thread_ids, allowed_thread, next_char, mutex_lock, pc, spawned,
               emitted>>

\* C17. Idempotent configuration validation: whenever an invalid configuration
\* is put before the constructor the outcome is the same failure, the
\* driver does not go on to run(), and no scheduler state changes.
C17_ValidationFails ==
    [][(InvalidConfig /\ main_pc = "main")
          => (~Running' /\ UNCHANGED scheduler)]_vars

\* thread_ids[allowed_thread] is there and is another thread than w.
NotMine(w) ==
    allowed_thread < Len(thread_ids) /\ thread_ids[allowed_thread + 1] # w

\* C20. Spurious wake-ups are harmless: a worker woken from cv.wait while
\* thread_ids[allowed_thread] is another thread takes the lock, evaluates the
\* predicate with the lock held and goes back to waiting, the lock released;
\* its steps print nothing and leave next_char and allowed_thread alone.
C20_SpuriousHarmless ==
    [][\A w \in Workers :
         (pc[w] \in {"woken", "check"} /\ NotMine(w) /\ pc'[w] # pc[w])
            => /\ pc[w] = "woken" => (pc'[w] = "check" /\ mutex_lock' = w)
               /\ pc[w] = "check" =>
                     (mutex_lock = w /\ pc'[w] = "blocked" /\ MutexFree')
               /\ UNCHANGED <<next_char, allowed_thread, emitted>>]_vars

\* No turn has been completed, so nobody has called notify_all, and a worker
\* whose turn it is not has been woken from its wait.
C20_Witness ==
    \E w \in Workers : pc[w] = "woken" /\ NotMine(w) /\ emitted = <<>>

\* The producer is in a fill pass, the consumer in a drain pass: between the
\* return of its acquire() and its release().
Filling == producer_pc \in {"fill", "show", "sleep"}
Draining == consumer_pc \in {"drain", "take", "sleep"}

\* C18. Binary-semaphore producer/consumer: a fill pass and a drain pass are
\* never under way at once; the passes alternate, the producer's first (the
\* headings alternate, a fill pass starts on a buffer drained to the end and a
\* drain pass on a buffer filled to the end); and they go on for ever, each
\* thread starting a pass again and again.
C18_StrictAlternation ==
    /\ [](~(Filling /\ Draining))
    /\ [](\A k \in 1..Len(passes) :
             passes[k] = IF k % 2 = 1 THEN "Produced" ELSE "Consumed")
    /\ [][/\ (~Filling /\ Filling') => buff = [i \in DOMAIN buff |-> 0]
          /\ (~Draining /\ Draining') => buff = [i \in DOMAIN buff |-> i * i]
         ]_vars
    /\ []<>(producer_pc = "fill" /\ producer_i = 0)
    /\ []<>(consumer_pc = "drain" /\ consumer_i = buff_size - 1)

\* The third pass, the producer's second, is under way.
C18_Witness == Len(passes) >= 3 /\ Filling /\ producer_i > 0

\* C19. Bounded buffer: buffer.size() is always between 0 and maxBufferSize;
\* the producer is never at its push_back with the buffer full, the consumer
\* never at its pop_back with the buffer empty, and no pop_back was ever made
\* on an empty buffer.
C19_BoundedBuffer ==
    /\ Len(buffer) \in 0..maxBufferSize
    /\ cv_pc["producer"] = "critical" => Len(buffer) < maxBufferSize
    /\ cv_pc["consumer"] = "critical" => Len(buffer) > 0
    /\ ~undefined

\* The buffer is full and the producer waits for room, the consumer having
\* taken an item before.
C19_Witness ==
    /\ Len(buffer) = maxBufferSize
    /\ cv_pc["producer"] = "waiting"
    /\ taken # 0

\* run() has registered all N identities and waits in join.
AllRegistered == main_pc = "join" /\ Len(thread_ids) = thread_count

\* A worker past its turn update whose notify_all is still to come.
BroadcastPending == \E v \in Workers : pc[v] \in {"wrap", "unlock", "notify"}

\* C21. No lost wake-up, no deadlock: once all N identities are registered
\* the workers are never all blocked in cv.wait, and the worker named by
\* thread_ids[allowed_thread] is not blocked there unless the notify_all that
\* wakes it is on its way.
C21_NoLostWakeup ==
    AllRegistered =>
        /\ \E w \in Workers : pc[w] # "blocked"
        /\ \A w \in Workers :
              (thread_ids[allowed_thread + 1] = w /\ pc[w] = "blocked")
                 => BroadcastPending

\* Spinning in waitforallthreadinit, in sleep_for, or blocked in cv.wait.
Suspended(w) == pc[w] \in {"barrier", "sleep", "blocked"}

\* C22. A suspended worker never holds the lock: a worker spinning in the
\* barrier, sleeping before it locks, or blocked in cv.wait does not own
\* mutex_lock.
C22_SuspendedUnlocked == \A w \in Workers : Suspended(w) => mutex_lock # w

\* One worker is blocked in the wait while another holds the lock in its
\* turn.
C22_Witness ==
    \E v, w \in Workers :
        v # w /\ pc[w] = "blocked" /\ mutex_lock = v /\ InTurn(v)

\* C23. Frame: a step that changes next_char or allowed_thread is a step of
\* the worker that holds mutex_lock, taken inside its turn; the steps of the
\* other workers and of the driver leave both as they are.
C23_Frame ==
    [][(next_char' # next_char \/ allowed_thread' # allowed_thread)
          => \E w \in Workers :
                /\ mutex_lock = w /\ mutex_lock' = w
                /\ InTurn(w) /\ pc'[w] # pc[w]
                /\ \A v \in Workers \ {w} : pc'[v] = pc[v]]_vars

\* A worker has moved the cursor and the turn index in its turn while another
\* worker waits to be let in.
C23_Witness ==
    \E v, w \in Workers :
        /\ v # w /\ pc[w] = "wrap" /\ next_char # 0 /\ allowed_thread # 0
        /\ pc[v] \in {"lock", "blocked", "woken"}

\* w is the thread thread_ids[allowed_thread] names, and the turn is its to
\* take or under way: no other worker is still inside a turn of its own.
TurnOwed(w) ==
    /\ allowed_thread < Len(thread_ids)
    /\ thread_ids[allowed_thread + 1] = w
    /\ \A v \in Workers \ {w} : ~InTurn(v)

\* C24. A stalled worker blocks the rotation: while the worker named by
\* thread_ids[allowed_thread] takes no step, whatever the other threads do
\* gives none of them a turn and changes neither next_char nor
\* allowed_thread; if it never steps again, that is so for ever.
C24_StalledBlocks ==
    [][\A w \in Workers :
         (TurnOwed(w) /\ pc'[w] = pc[w])
            => /\ UNCHANGED <<next_char, allowed_thread, emitted>>
               /\ \A v \in Workers \ {w} : ~InTurn(v)']_vars

\* After a first turn the worker whose turn it is has not come back from its
\* sleep, and the other worker has tried for the turn and is blocked.
C24_Witness ==
    \E v, w \in Workers :
        /\ v # w /\ TurnOwed(w) /\ pc[w] = "sleep"
        /\ pc[v] = "blocked" /\ Len(emitted) >= 1

\* The workers the predicate of cv.wait is true for.
Eligible ==
    {w \in Workers :
        allowed_thread < Len(thread_ids) /\ thread_ids[allowed_thread + 1] = w}

\* C25. Unique eligibility: once thread_ids has its N entries they are
\* pairwise distinct, and exactly one worker is the thread that
\* thread_ids[allowed_thread] names.
C25_UniqueEligible ==
    Len(thread_ids) = thread_count =>
        /\ \A i, j \in 1..Len(thread_ids) :
              thread_ids[i] = thread_ids[j] => i = j
        /\ Cardinality(Eligible) = 1

\* Both identities are registered and the second worker has been found
\* eligible.
C25_Witness ==
    /\ thread_count = 2 /\ Len(thread_ids) = 2
    /\ allowed_thread = 1 /\ pc[2] = "print"

\* The cursor the k-th turn starts from when the turns are taken one after
\* another: print_chars' addition and print_thread's subtraction, k - 1 times.
RECURSIVE CursorAt(_)
CursorAt(k) == IF k <= 1 THEN 0 ELSE Wrapped(NextCursor(CursorAt(k - 1)))

\* C26. Deterministic output: the configuration alone fixes the records
\* written, whatever the interleaving: thread_ids lists the workers in spawn
\* order, the k-th record is written by worker (k - 1) mod N under that
\* index, starts at the cursor k - 1 turns lead to, and each of its
\* characters is the one value the read can yield.
C26_Deterministic ==
    /\ \A i \in 1..Len(thread_ids) : thread_ids[i] = i
    /\ \A k \in 1..Len(emitted) :
          /\ emitted[k].who = ((k - 1) % thread_count) + 1
          /\ emitted[k].id = (k - 1) % thread_count
          /\ emitted[k].from = CursorAt(k)
          /\ emitted[k].reads = ReadIndices(CursorAt(k))
          /\ \A j \in 1..Len(emitted[k].chunk) :
                CharReads(emitted[k].reads[j]) = {emitted[k].chunk[j]}

\* C27. The single-wrap read agrees with the general circular read where it
\* is meant to be used: for a chunk no longer than the string and a cursor c
\* inside the string, print_chars writes the char_count characters
\* str[(c + i) mod L], i = 0, 1, ..., and the cursor the turn leaves behind is
\* (c + char_count) mod L, as a read that wraps as often as needed does.
C27_SingleWrapAgrees ==
    \A k \in 1..Len(emitted) :
        LET c == emitted[k].from
            after == (c + char_count) % StrLen
        IN  /\ c \in 0..(StrLen - 1)
            /\ Len(emitted[k].chunk) = char_count
            /\ \A i \in 1..char_count :
                  emitted[k].chunk[i] = str[((c + i - 1) % StrLen) + 1]
            /\ k < Len(emitted) => emitted[k + 1].from = after
            /\ (k = Len(emitted) /\ CursorAtRest /\ k < MaxTurns)
                  => next_char = after

\* A chunk that started inside the string and ran over its end has been
\* written, and the turn is over.
C27_Witness ==
    /\ CursorAtRest
    /\ \E k \in 1..Len(emitted) :
          /\ emitted[k].from > 0
          /\ emitted[k].from + char_count > StrLen

\* The consumer is in cond.wait: blocked, or woken and evaluating the
\* predicate again.
ConsumerAtWait == cv_pc["consumer"] \in {"waiting", "woken", "check"}

\* C28. The condition-variable producer/consumer never finishes: under fair
\* scheduling the producer pushes each of its val items once, counting val
\* down to 0, and returns; every item pushed is popped; from then on the
\* buffer is empty and the consumer is in cond.wait for ever: it never
\* returns, and main's t2.join() with it.
C28_NeverFinishes ==
    /\ [][val' # val => (val' = val - 1 /\ buffer' = Append(buffer, val))]_vars
    /\ [](cv_pc["consumer"] # "done")
    /\ <>[](/\ cv_pc["producer"] = "done"
            /\ val = 0
            /\ buffer = <<>>
            /\ ConsumerAtWait)

\* The producer has returned, the last item is taken, and the consumer is
\* blocked on the condition variable.
C28_Witness ==
    /\ cv_pc["producer"] = "done"
    /\ val = 0
    /\ buffer = <<>>
    /\ taken # 0
    /\ cv_pc["consumer"] = "waiting"

\* thread1 holds m1 and waits for m2 while thread2 holds m2 and waits for m1.
Deadlocked ==
    /\ held["m1"] = "thread1" /\ lock_pc["thread1"] = "wait2"
    /\ held["m2"] = "thread2" /\ lock_pc["thread2"] = "wait2"

\* Both critical sections were announced, both threads joined, main returns.
BothFinished ==
    /\ lock_main = "return"
    /\ Len(printed) = 2
    /\ \A t \in LockThreads : lock_pc[t] = "done"

\* C29. With thread1 locking m1 then m2 and thread2 locking m2 then m1, the
\* state in which each thread holds its first mutex and waits for the other's
\* is never left, and no critical section was or will be reached in it; every
\* run that does not end there ends with both threads finished.
C29_OppositeOrderDeadlock ==
    /\ [][Deadlocked => Deadlocked']_vars
    /\ [](Deadlocked => printed = <<>>)
    /\ <>[](Deadlocked \/ BothFinished)

\* The deadlock is reached: thread1 in m2.lock() owning m1, thread2 in
\* m1.lock() owning m2.
C29_Witness == Deadlocked /\ Len(mutex_ops) = 4

====
